---- MODULE Spec2Model ----
(***************************************************************************)
(* Home Library Backend (src/main.py): module start-up and the            *)
(* POST /upload-book/ handler upload_book, with the three collaborators   *)
(* it drives: the inference service, the PostgreSQL store and the Google  *)
(* worksheet.  Several requests may be in flight at once; each one runs   *)
(* the handler's statements in order, one action per statement group.     *)
(*                                                                         *)
(* The worksheet row's fourth column (added_at, line 109) is not          *)
(* modelled: no property below reads it.  Rows of the store and of the    *)
(* worksheet carry a history field "by" naming the request that wrote     *)
(* them; the program never reads it.                                      *)
(***************************************************************************)
EXTENDS Naturals, Sequences, FiniteSets, TLC

\* Number of upload_book requests that may be in flight.
NumReq == 2

Requests == 1..NumReq

VARIABLES
    phase,      \* "boot", "refused" (module import raised), "serving"
    env,        \* os.environ after load_dotenv(): name -> "set" / "unset"
    creds_ok,   \* credentials.json readable and the spreadsheet opens
    req,        \* per request: the handler's position and locals
    fs,         \* temp files present on disk, named by their request
    conn,       \* per request: its store connection: "none", "open", "closed"
    pending,    \* per request: rows of its uncommitted transaction
    seq,        \* last value handed out by the books.id sequence
    store,      \* committed rows of table books
    sheet       \* rows of worksheet "Sheet1", in order

vars == <<phase, env, creds_ok, req, fs, conn, pending, seq, store, sheet>>

(***************************************************************************)
(* Configuration (lines 19-42)                                             *)
(***************************************************************************)
DBVars == {"DB_HOST", "DB_NAME", "DB_USER", "DB_PASS"}

EnvVars == DBVars \cup {"GEMINI_API_KEY"}

\* os.getenv(name) is truthy
Present(e, name) == e[name] = "set"

\* line 39, three of the four names only
AllDBPresentButPass(e) == \A n \in DBVars \ {"DB_PASS"} : Present(e, n)

\* line 39: all([DB_HOST, DB_NAME, DB_USER, DB_PASS])
AllDBPresent(e) == \A n \in DBVars : Present(e, n)

(***************************************************************************)
(* Text returned by the inference service, as a token sequence, and       *)
(* json.loads on it (line 88), for flat objects of string members, the    *)
(* empty list and bare strings.                                           *)
(***************************************************************************)
P(c) == [k |-> "punct", v |-> c]

S(s) == [k |-> "str", v |-> s]

\* {"title":"Dune","genre":"Science Fiction"}
TextDune ==
    <<P("{"), S("title"), P(":"), S("Dune"), P(","),
      S("genre"), P(":"), S("Science Fiction"), P("}")>>

\* {"genre":"Novel","title":"Emma"}
TextEmma ==
    <<P("{"), S("genre"), P(":"), S("Novel"), P(","),
      S("title"), P(":"), S("Emma"), P("}")>>

\* {"title":"Dune"}
TextNoGenre == <<P("{"), S("title"), P(":"), S("Dune"), P("}")>>

\* []
TextList == <<P("["), P("]")>>

\* {"title":"Dune",      (cut short)
TextTruncated == <<P("{"), S("title"), P(":"), S("Dune"), P(",")>>

Texts == {TextDune, TextEmma, TextNoGenre, TextList, TextTruncated}

NoText == <<>>

Unbound == [t |-> "unbound"]

JSONError == [t |-> "error", msg |-> "Expecting property name enclosed in double quotes"]

JObject(o) == [t |-> "object", o |-> o]

JList == [t |-> "list"]

JString(s) == [t |-> "string", s |-> s]

\* members of an object from token i on; a repeated key keeps its last value
RECURSIVE ParseMembers(_, _, _)
ParseMembers(toks, i, obj) ==
    IF i + 3 > Len(toks) THEN JSONError
    ELSE IF ~(toks[i].k = "str" /\ toks[i + 1] = P(":") /\ toks[i + 2].k = "str")
    THEN JSONError
    ELSE LET obj2 == (toks[i].v :> toks[i + 2].v) @@ obj
         IN  IF toks[i + 3] = P("}")
             THEN IF i + 3 = Len(toks) THEN JObject(obj2) ELSE JSONError
             ELSE IF toks[i + 3] = P(",")
             THEN ParseMembers(toks, i + 4, obj2)
             ELSE JSONError

json_loads(toks) ==
    IF Len(toks) = 0 THEN JSONError
    ELSE IF Len(toks) = 1 /\ toks[1].k = "str" THEN JString(toks[1].v)
    ELSE IF toks = <<P("["), P("]")>> THEN JList
    ELSE IF toks = <<P("{"), P("}")>> THEN JObject(<<>>)
    ELSE IF toks[1] = P("{") THEN ParseMembers(toks, 2, <<>>)
    ELSE JSONError

\* book_data.get(key, ""): a lookup that never raises
GetWithDefault(v, key) ==
    IF v.t = "object" /\ key \in DOMAIN v.o
    THEN [ok |-> TRUE, val |-> v.o[key]]
    ELSE [ok |-> TRUE, val |-> ""]

\* book_data[key] (lines 98, 110): the value, or the exception it raises
GetItem(v, key) ==
    IF v.t = "object"
    THEN IF key \in DOMAIN v.o
         THEN [ok |-> TRUE, val |-> v.o[key]]
         ELSE [ok |-> FALSE, msg |-> IF key = "title" THEN "'title'" ELSE "'genre'"]
    ELSE IF v.t = "list"
    THEN [ok |-> FALSE, msg |-> "list indices must be integers or slices, not str"]
    ELSE [ok |-> FALSE, msg |-> "string indices must be integers, not 'str'"]

(***************************************************************************)
(* Responses                                                               *)
(***************************************************************************)
NoResp == [status_code |-> 0]

\* a payload that fills genre from the title
SuccessResponseGenreFromTitle(book_data) ==
    [status_code |-> 200, status |-> "success",
     book |-> [title |-> book_data.o["title"], genre |-> book_data.o["title"]],
     message |-> "Book inserted successfully!"]

\* lines 113-117: book is the parsed object itself
SuccessResponse(book_data) ==
    [status_code |-> 200, status |-> "success", book |-> book_data.o,
     message |-> "Book inserted successfully!"]

\* an error response that hides the message
OpaqueErrorResponse(msg) == [status_code |-> 500, detail |-> "Internal Server Error"]

\* line 120: HTTPException(status_code=500, detail=str(e))
ErrorResponse(msg) == [status_code |-> 500, detail |-> msg]

(***************************************************************************)
(* Initial state: the process is about to import main.py                  *)
(***************************************************************************)
InitReq ==
    [pc |-> "start", temp_path |-> FALSE, text |-> NoText, book_data |-> Unbound,
     new_id |-> 0, stage |-> "none", exc |-> "", resp |-> NoResp]

Init ==
    /\ phase = "boot"
    /\ env \in [EnvVars -> {"set", "unset"}]
    /\ creds_ok \in BOOLEAN
    /\ req = [r \in Requests |-> InitReq]
    /\ fs = {}
    /\ conn = [r \in Requests |-> "none"]
    /\ pending = [r \in Requests |-> {}]
    /\ seq = 0
    /\ store = {}
    /\ sheet = <<>>

\* lines 19-42: the module body; an exception in it ends the import
Startup ==
    /\ phase = "boot"
    /\ phase' = IF creds_ok /\ AllDBPresent(env) THEN "serving" ELSE "refused"
    /\ UNCHANGED <<env, creds_ok, req, fs, conn, pending, seq, store, sheet>>

\* an exception raised at `stage` with message `msg`: control goes to line 119
Raise(r, stage, msg) ==
    req' = [req EXCEPT ![r].pc = "except", ![r].stage = stage, ![r].exc = msg]

Goto(r, pc) == req' = [req EXCEPT ![r].pc = pc]

At(r, pc) == phase = "serving" /\ req[r].pc = pc

(***************************************************************************)
(* upload_book (lines 61-124)                                              *)
(***************************************************************************)
\* lines 65-67: create the temp file, write the upload into it, bind temp_path
TempWrite(r) ==
    /\ At(r, "start")
    /\ \/ /\ Raise(r, "temp", "expected str, bytes or os.PathLike object, not NoneType")
          /\ fs' = fs
       \/ /\ Raise(r, "temp", "[Errno 28] No space left on device")
          /\ fs' = fs \cup {r}
       \/ /\ req' = [req EXCEPT ![r].pc = "infer", ![r].temp_path = TRUE]
          /\ fs' = fs \cup {r}
    /\ UNCHANGED <<phase, env, creds_ok, conn, pending, seq, store, sheet>>

\* lines 70-87: build the client, upload the file, ask for the book's details
Infer(r) ==
    /\ At(r, "infer")
    /\ IF ~Present(env, "GEMINI_API_KEY")
       THEN Raise(r, "infer", "Missing key inputs argument")
       ELSE \/ Raise(r, "infer", "files.upload failed")
            \/ Raise(r, "infer", "generate_content failed")
            \/ \E t \in Texts : req' = [req EXCEPT ![r].pc = "parse", ![r].text = t]
    /\ UNCHANGED <<phase, env, creds_ok, fs, conn, pending, seq, store, sheet>>

\* a parse that falls back to an empty object instead of raising
ParseLenient(r) ==
    /\ At(r, "parse")
    /\ LET v == json_loads(req[r].text)
       IN  req' = [req EXCEPT ![r].pc = "connect",
                              ![r].book_data = IF v.t = "error" THEN JObject(<<>>) ELSE v]
    /\ UNCHANGED <<phase, env, creds_ok, fs, conn, pending, seq, store, sheet>>

\* line 88: book_data = json.loads(response.text)
Parse(r) ==
    /\ At(r, "parse")
    /\ LET v == json_loads(req[r].text)
       IN  IF v.t = "error"
           THEN Raise(r, "parse", v.msg)
           ELSE req' = [req EXCEPT ![r].pc = "connect", ![r].book_data = v]
    /\ UNCHANGED <<phase, env, creds_ok, fs, conn, pending, seq, store, sheet>>

\* lines 91-94: a new connection and a cursor on it
Connect(r) ==
    /\ At(r, "connect")
    /\ \/ /\ Raise(r, "connect", "could not connect to server")
          /\ conn' = conn
       \/ /\ Goto(r, "execute")
          /\ conn' = [conn EXCEPT ![r] = "open"]
    /\ UNCHANGED <<phase, env, creds_ok, fs, pending, seq, store, sheet>>

\* an id computed from the rows visible in the table
NextIdFromCount == Cardinality(store) + 1

\* line 97, RETURNING id: the next value of the table's id sequence
NextId == seq + 1

\* lines 97-98: look up title and genre, then run the INSERT in the
\* connection's transaction
Execute(r) ==
    /\ At(r, "execute")
    /\ LET t == GetItem(req[r].book_data, "title")
           g == GetItem(req[r].book_data, "genre")
       IN  IF ~t.ok THEN Raise(r, "lookup", t.msg) /\ UNCHANGED <<pending, seq>>
           ELSE IF ~g.ok THEN Raise(r, "lookup", g.msg) /\ UNCHANGED <<pending, seq>>
           ELSE \/ /\ Raise(r, "execute", "server closed the connection unexpectedly")
                   /\ UNCHANGED <<pending, seq>>
                \/ /\ Goto(r, "fetch")
                   /\ seq' = NextId
                   /\ pending' = [pending EXCEPT ![r] =
                         {[id |-> NextId, title |-> t.val, genre |-> g.val, by |-> r]}]
    /\ UNCHANGED <<phase, env, creds_ok, fs, conn, store, sheet>>

\* line 101: new_id = cur.fetchone()[0]
Fetch(r) ==
    /\ At(r, "fetch")
    /\ \/ Raise(r, "fetch", "no results to fetch")
       \/ req' = [req EXCEPT ![r].pc = "commit",
                             ![r].new_id = (CHOOSE row \in pending[r] : TRUE).id]
    /\ UNCHANGED <<phase, env, creds_ok, fs, conn, pending, seq, store, sheet>>

\* a commit whose failure is swallowed: the handler goes on as if it had succeeded
CommitSwallow(r) ==
    /\ At(r, "commit")
    /\ \/ /\ Goto(r, "close")
          /\ UNCHANGED <<pending, store>>
       \/ /\ Goto(r, "close")
          /\ store' = store \cup pending[r]
          /\ pending' = [pending EXCEPT ![r] = {}]
    /\ UNCHANGED <<phase, env, creds_ok, fs, conn, seq, sheet>>

\* line 103: conn.commit()
Commit(r) ==
    /\ At(r, "commit")
    /\ \/ /\ Raise(r, "commit", "connection already closed")
          /\ UNCHANGED <<pending, store>>
       \/ /\ Goto(r, "close")
          /\ store' = store \cup pending[r]
          /\ pending' = [pending EXCEPT ![r] = {}]
    /\ UNCHANGED <<phase, env, creds_ok, fs, conn, seq, sheet>>

\* lines 104-105: cur.close(); conn.close()
Close(r) ==
    /\ At(r, "close")
    /\ Goto(r, "append")
    /\ conn' = [conn EXCEPT ![r] = "closed"]
    /\ pending' = [pending EXCEPT ![r] = {}]
    /\ UNCHANGED <<phase, env, creds_ok, fs, seq, store, sheet>>

\* line 110 without its timestamp
SheetRow(r) ==
    [id |-> req[r].new_id,
     title |-> GetItem(req[r].book_data, "title").val,
     genre |-> GetItem(req[r].book_data, "genre").val,
     by |-> r]

\* an append that deletes the request's store row when the worksheet refuses it
AppendOrUndo(r) ==
    /\ At(r, "append")
    /\ \/ /\ Raise(r, "append", "APIError: quota exceeded")
          /\ store' = {row \in store : row.id # req[r].new_id}
          /\ sheet' = sheet
       \/ /\ Goto(r, "return")
          /\ store' = store
          /\ sheet' = Append(sheet, SheetRow(r))
    /\ UNCHANGED <<phase, env, creds_ok, fs, conn, pending, seq>>

\* lines 108-111: worksheet.append_row(row)
AppendRow(r) ==
    /\ At(r, "append")
    /\ \/ /\ Raise(r, "append", "APIError: quota exceeded")
          /\ sheet' = sheet
       \/ /\ Goto(r, "return")
          /\ sheet' = Append(sheet, SheetRow(r))
    /\ UNCHANGED <<phase, env, creds_ok, fs, conn, pending, seq, store>>

\* lines 113-117: the success payload
Return(r) ==
    /\ At(r, "return")
    /\ req' = [req EXCEPT ![r].pc = "finally",
                          ![r].resp = SuccessResponse(req[r].book_data)]
    /\ UNCHANGED <<phase, env, creds_ok, fs, conn, pending, seq, store, sheet>>

\* lines 119-120: every Exception becomes an HTTPException
Except(r) ==
    /\ At(r, "except")
    /\ req' = [req EXCEPT ![r].pc = "finally", ![r].resp = ErrorResponse(req[r].exc)]
    /\ UNCHANGED <<phase, env, creds_ok, fs, conn, pending, seq, store, sheet>>

\* lines 121-124: remove the temp file if temp_path is bound and the file exists
Finally(r) ==
    /\ At(r, "finally")
    /\ Goto(r, "done")
    /\ fs' = IF req[r].temp_path /\ r \in fs THEN fs \ {r} ELSE fs
    /\ UNCHANGED <<phase, env, creds_ok, conn, pending, seq, store, sheet>>

\* The handler's frame is released some time after it ended with an exception;
\* a connection object still open then is closed by its destructor and its
\* transaction is rolled back by the server.
Collect(r) ==
    /\ At(r, "done")
    /\ conn[r] = "open"
    /\ conn' = [conn EXCEPT ![r] = "closed"]
    /\ pending' = [pending EXCEPT ![r] = {}]
    /\ UNCHANGED <<phase, env, creds_ok, req, fs, seq, store, sheet>>

Next ==
    \/ Startup
    \/ \E r \in Requests :
          \/ TempWrite(r)
          \/ Infer(r)
          \/ Parse(r)
          \/ Connect(r)
          \/ Execute(r)
          \/ Fetch(r)
          \/ Commit(r)
          \/ Close(r)
          \/ AppendRow(r)
          \/ Return(r)
          \/ Except(r)
          \/ Finally(r)
          \/ Collect(r)

Spec == Init /\ [][Next]_vars

(***************************************************************************)
(* Properties                                                              *)
(***************************************************************************)
Done(r) == req[r].pc = "done"

StoreRowsBy(r) == {row \in store : row.by = r}

SheetRowsBy(r) == {i \in 1..Len(sheet) : sheet[i].by = r}

\* the stages of the store step and of the worksheet step
StoreStages == {"connect", "execute", "fetch", "commit"}

\* the inference service has answered request r
Answered(r) == req[r].text # NoText

\* what the service's text denotes
Inferred(r) == json_loads(req[r].text)

\* an object with non-empty title and genre
ValidBook(v) ==
    /\ v.t = "object"
    /\ {"title", "genre"} \subseteq DOMAIN v.o
    /\ v.o["title"] # ""
    /\ v.o["genre"] # ""

\* C1: a completed request whose upload was written, whose inference text is
\* a JSON object with non-empty title and genre, and whose store and worksheet
\* steps did not fail, answers {status: "success", book, message} with the
\* inferred title and genre, and the store holds exactly one row written by
\* it, with those values (for the text of the Dune scenario: Dune, Science
\* Fiction).
C1_SuccessResponseAndRow ==
    \A r \in Requests :
        (/\ Done(r)
         /\ req[r].temp_path
         /\ Answered(r)
         /\ ValidBook(Inferred(r))
         /\ req[r].stage \notin StoreStages \cup {"append"})
        => /\ req[r].resp.status_code = 200
           /\ req[r].resp.status = "success"
           /\ req[r].resp.message = "Book inserted successfully!"
           /\ req[r].resp.book["title"] = Inferred(r).o["title"]
           /\ req[r].resp.book["genre"] = Inferred(r).o["genre"]
           /\ Cardinality(StoreRowsBy(r)) = 1
           /\ \A row \in StoreRowsBy(r) :
                 /\ row.title = Inferred(r).o["title"]
                 /\ row.genre = Inferred(r).o["genre"]
           /\ req[r].text = TextDune =>
                 /\ req[r].resp.book["title"] = "Dune"
                 /\ req[r].resp.book["genre"] = "Science Fiction"
                 /\ \A row \in StoreRowsBy(r) :
                       row.title = "Dune" /\ row.genre = "Science Fiction"

C1_Witness ==
    \E r \in Requests :
        /\ Done(r)
        /\ req[r].text = TextDune
        /\ req[r].resp.status_code = 200
        /\ StoreRowsBy(r) # {}

\* C2: once a request has completed, on any exit path, the temp file it
\* created no longer exists.
C2_TempFileRemoved == \A r \in Requests : Done(r) => r \notin fs

\* C3: every worksheet row was appended by a request whose insert is committed
\* in the store, and a request whose store step raised (connect, execute,
\* fetch, commit) has appended no worksheet row.
C3_NoSheetRowWithoutCommit ==
    /\ \A i \in 1..Len(sheet) :
          \E row \in store : row.by = sheet[i].by /\ row.id = sheet[i].id
    /\ \A r \in Requests : req[r].stage \in StoreStages => SheetRowsBy(r) = {}

C3_Witness ==
    \E r \in Requests :
        /\ Done(r)
        /\ req[r].stage = "commit"
        /\ Len(sheet) > 0

\* C4: a request whose inference text is not valid JSON opens no connection,
\* inserts nothing, appends nothing, and completes with a failure response.
C4_InvalidJSONNoMutation ==
    \A r \in Requests :
        (Answered(r) /\ Inferred(r).t = "error")
        => /\ conn[r] = "none"
           /\ pending[r] = {}
           /\ StoreRowsBy(r) = {}
           /\ SheetRowsBy(r) = {}
           /\ Done(r) => req[r].resp.status_code = 500

C4_Witness ==
    \E r \in Requests :
        /\ Done(r)
        /\ req[r].text = TextTruncated
        /\ req[r].resp.status_code = 500

\* C5: a request in which an exception was raised, at whatever stage, never
\* gets a success response or another status code: once the handler has
\* caught it, the response is status code 500 with the exception's message
\* as detail.
C5_UniformErrorResponse ==
    \A r \in Requests :
        req[r].stage # "none"
        => /\ req[r].resp.status_code \in {0, 500}
           /\ req[r].pc \in {"finally", "done"}
                 => req[r].resp = [status_code |-> 500, detail |-> req[r].exc]

C5_Witness ==
    \E r1, r2 \in Requests :
        /\ Done(r1) /\ req[r1].stage = "temp"
        /\ req[r1].resp.detail = "[Errno 28] No space left on device"
        /\ Done(r2) /\ req[r2].stage = "append"
        /\ req[r2].resp.detail = "APIError: quota exceeded"

\* C6, as stated: after start-up has run, the process has refused to start
\* if any of the five configuration values is absent.
C6_RefusesIfAnyOfFiveAbsent ==
    phase # "boot" =>
        ((\E n \in EnvVars : ~Present(env, n)) => phase = "refused")

\* C6, amended: after start-up has run, the process has refused to start if
\* any of the four store values (host, database name, user, password) is
\* absent; an absent inference API key does not stop it.
C6_RefusesIfStoreValueAbsent ==
    phase # "boot" =>
        ((\E n \in DBVars : ~Present(env, n)) => phase = "refused")

C6_Witness ==
    /\ phase = "refused"
    /\ creds_ok
    /\ ~Present(env, "DB_PASS")
    /\ \A n \in EnvVars \ {"DB_PASS"} : Present(env, n)

\* C7: a request whose worksheet append raised keeps its committed row in the
\* store, has no worksheet row with that id, and completes with a failure
\* response: nothing undoes the insert.
C7_SheetFailureLeavesStoreRow ==
    \A r \in Requests :
        req[r].stage = "append"
        => /\ \E row \in store : row.by = r /\ row.id = req[r].new_id
           /\ \A i \in 1..Len(sheet) : sheet[i].id # req[r].new_id
           /\ Done(r) => req[r].resp.status_code = 500

C7_Witness ==
    \E r \in Requests :
        /\ Done(r)
        /\ req[r].stage = "append"
        /\ req[r].resp.status_code = 500
        /\ StoreRowsBy(r) # {}
        /\ SheetRowsBy(r) = {}

\* C8: once a request has completed, with success or with a failure after
\* its connection was opened, that connection is not open.
C8_ConnectionClosed == \A r \in Requests : Done(r) => conn[r] # "open"

\* C9: a request whose inference text is valid JSON but not an object with
\* both title and genre runs no insert, commits no row, appends no worksheet
\* row, and completes with the error response.
C9_MissingFieldNoMutation ==
    \A r \in Requests :
        (/\ Answered(r)
         /\ Inferred(r).t # "error"
         /\ \/ Inferred(r).t # "object"
            \/ ~({"title", "genre"} \subseteq DOMAIN Inferred(r).o))
        => /\ pending[r] = {}
           /\ StoreRowsBy(r) = {}
           /\ SheetRowsBy(r) = {}
           /\ Done(r) => /\ req[r].resp.status_code = 500
                         /\ req[r].resp.detail = req[r].exc

C9_Witness ==
    \E r1, r2 \in Requests :
        /\ Done(r1) /\ req[r1].text = TextNoGenre /\ req[r1].resp.detail = "'genre'"
        /\ Done(r2) /\ req[r2].text = TextList /\ req[r2].resp.status_code = 500

\* C10: in every reachable state each worksheet row carries the id, title and
\* genre of a committed store row, no two worksheet rows carry the same id,
\* and the worksheet has no more rows than the store.
C10_SheetMirrorsStore ==
    /\ \A i \in 1..Len(sheet) :
          \E row \in store :
              /\ row.id = sheet[i].id
              /\ row.title = sheet[i].title
              /\ row.genre = sheet[i].genre
    /\ \A i, j \in 1..Len(sheet) : sheet[i].id = sheet[j].id => i = j
    /\ Len(sheet) <= Cardinality(store)

\* two requests interleaved: the row inserted second was appended first
C10_Witness ==
    /\ Len(sheet) >= 2
    /\ sheet[1].id > sheet[2].id
    /\ sheet[1].title # sheet[2].title

====
